---- MODULE Spec2Model ----
(***************************************************************************)
(* The serial pump, the message classifier and the connection manager of   *)
(* src/app.py (IntrusionDetection) as a state machine.                     *)
(*                                                                         *)
(* Threads: the request threads run connect_serial / disconnect_serial,    *)
(* every successful connect_serial starts one more read_serial_data thread *)
(* (a "pump").  All of them share the module globals of app.py, the serial *)
(* port, the socketio channel and the database.  A step of a thread is one *)
(* access to that shared state together with the local computation that    *)
(* follows it; time.sleep() is a point where the other threads may run and *)
(* carries no timing guarantee.  What a thread hands to socketio.emit and  *)
(* to the database session is recorded per thread, in the order of its     *)
(* calls.                                                                  *)
(*                                                                         *)
(* Text: a string is a sequence of symbols.  The separators the program    *)
(* tests for ('.', '\n', '\r', blanks) are symbols of their own; a run of  *)
(* letters that the program only ever compares as part of a marker phrase  *)
(* (a word) is one symbol, in its lowercase and its uppercase spelling.    *)
(* Timestamps carried inside notifications are left out of the payloads;   *)
(* durations are kept.                                                     *)
(***************************************************************************)
EXTENDS Integers, Sequences, FiniteSets, TLC

VARIABLES
    ser,                        \* the global ser: "None", or the port object's state "open" / "closed"
    rx,                         \* bytes waiting in the open port's input buffer (ser.in_waiting = Len(rx))
    serial_connected,
    reading,
    current_motion_start,       \* None or <<t>>
    calibration_start_time,     \* None or <<t>>
    calibration_dots_received,
    now,                        \* datetime.now()
    sink,                       \* committed IntrusionEvent rows, in order
    pump,                       \* the read_serial_data threads: locals, position, and what each has emitted
    npump,                      \* threads started so far
    req,                        \* the request threads: position in connect_serial / disconnect_serial, and what the call has emitted
    nreq,                       \* requests issued so far
    script,                     \* the writes the device is going to make
    sent                        \* how many of them have reached the port

vars == <<ser, rx, serial_connected, reading, current_motion_start,
          calibration_start_time, calibration_dots_received, now, sink,
          pump, npump, req, nreq, script, sent>>

globals == <<serial_connected, reading, current_motion_start,
             calibration_start_time, calibration_dots_received>>
wire == <<ser, rx>>
device == <<script, sent>>

-----------------------------------------------------------------------------
(* Bounds of the model *)

MaxRequests == 2        \* connect / disconnect requests issued in one behaviour
MaxTime == 2            \* clock ticks in one behaviour
MaxPhrases == 3         \* phrases in one input of the framer specification
MaxDots == 70           \* largest dot count the progress specification starts from

-----------------------------------------------------------------------------
(* Program constants *)

total_calibration_time == 30

None == <<>>
Some(x) == <<x>>

calibrating_sensor == <<"calibrating", " ", "sensor">>
sensor_active == <<"sensor", " ", "active">>
motion_detected == <<"motion", " ", "detected">>
motion_ended == <<"motion", " ", "ended">>

default_port == "COM10"

-----------------------------------------------------------------------------
(* Text *)

\* str.lower(), symbol by symbol
LowerChar(c) ==
    CASE c = "CALIBRATING" -> "calibrating"
      [] c = "SENSOR" -> "sensor"
      [] c = "ACTIVE" -> "active"
      [] c = "MOTION" -> "motion"
      [] c = "DETECTED" -> "detected"
      [] c = "ENDED" -> "ended"
      [] OTHER -> c

Lower(s) == [i \in 1..Len(s) |-> LowerChar(s[i])]

Whitespace == {" ", "\t", "\n", "\r"}

\* str.strip(): leading and trailing whitespace removed
Strip(s) ==
    LET keep == {i \in 1..Len(s) : s[i] \notin Whitespace}
    IN  IF keep = {} THEN <<>>
        ELSE LET lo == CHOOSE i \in keep : \A j \in keep : i <= j
                 hi == CHOOSE i \in keep : \A j \in keep : j <= i
             IN  SubSeq(s, lo, hi)

\* the Python test `pat in s` on strings
IsIn(pat, s) ==
    \E i \in 0..(Len(s) - Len(pat)) : SubSeq(s, i + 1, i + Len(pat)) = pat

\* bytes.decode('utf-8', errors='ignore') of one byte: a byte that is no
\* character on its own decodes to the empty string
UndecodableBytes == {"0x80"}
Decode(byte) == IF byte \in UndecodableBytes THEN <<>> ELSE <<byte>>

-----------------------------------------------------------------------------
(* Notifications (socketio.emit) and rows (IntrusionEvent) *)

SerialStatusConnected(port) ==
    [name |-> "serial_status", status |-> "connected", port |-> port]
SerialStatusDisconnected ==
    [name |-> "serial_status", status |-> "disconnected"]
SerialError(msg) == [name |-> "serial_error", error |-> msg]
SerialData(message) == [name |-> "serial_data", message |-> message]
SensorStatus(status) == [name |-> "sensor_status", status |-> status]
MotionDetectedStatus(message) ==
    [name |-> "motion_status", status |-> "detected", message |-> message]
MotionEndedStatus(message, duration) ==
    [name |-> "motion_status", status |-> "ended", message |-> message,
     duration |-> duration]
MotionAlert == [name |-> "motion_alert", type |-> "detected"]

\* the scale progress values are carried in: progress p percent is the
\* integer p * total_calibration_time, so that dots / 30 * 100 is exact
Percent(p) == p * total_calibration_time

Min(a, b) == IF a <= b THEN a ELSE b
Max(a, b) == IF a >= b THEN a ELSE b

\* the progress formula without its min(100, ...)
ProgressUnclamped(dots) == dots * 100

ProgressOf(dots) == Min(Percent(100), dots * 100)
RemainingOf(dots) == Max(0, total_calibration_time - dots)

CalibrationProgress(progress, remaining, active) ==
    [name |-> "calibration_progress", progress |-> progress,
     remaining |-> remaining, active |-> active]
CalibrationProgressDots(progress, remaining, dots) ==
    [name |-> "calibration_progress", progress |-> progress,
     remaining |-> remaining, active |-> TRUE, dots |-> dots]

\* log_event(event_type, message): text is the fixed part of the message,
\* arg the line or the duration formatted into it
log_event(event_type, text, arg) ==
    [name |-> "log_update", type |-> event_type, text |-> text, arg |-> arg]

IntrusionEvent(event_type, message, duration) ==
    [event_type |-> event_type, message |-> message, duration |-> duration]

\* a thread's record of its own db.session.commit()
Committed(row) == [name |-> "db_commit", row |-> row]

-----------------------------------------------------------------------------
(* Message Classifier: the if / elif chain of process_serial_message *)

\* the chain with the motion rules in the other order
ClassifyEndedFirst(message) ==
    LET message_lower == Lower(message)
    IN  IF IsIn(calibrating_sensor, message_lower) THEN "calibration_start"
        ELSE IF IsIn(sensor_active, message_lower) THEN "sensor_active"
        ELSE IF IsIn(motion_ended, message_lower) THEN "motion_end"
        ELSE IF IsIn(motion_detected, message_lower) THEN "motion_start"
        ELSE "other"

Classify(message) ==
    LET message_lower == Lower(message)
    IN  IF IsIn(calibrating_sensor, message_lower) THEN "calibration_start"
        ELSE IF IsIn(sensor_active, message_lower) THEN "sensor_active"
        ELSE IF IsIn(motion_detected, message_lower) THEN "motion_start"
        ELSE IF IsIn(motion_ended, message_lower) THEN "motion_end"
        ELSE "other"

\* where process_serial_message continues after its serial_data emit
BranchOf(message) ==
    CASE Classify(message) = "calibration_start" -> "cal_set"
      [] Classify(message) = "sensor_active" -> "act_status"
      [] Classify(message) = "motion_start" -> "det_status"
      [] Classify(message) = "motion_end" -> "end_duration"
      [] OTHER -> "other_log"

-----------------------------------------------------------------------------
(* Threads *)

ReqIds == {"r1"}
PumpIds == 1..MaxRequests       \* a request starts at most one pump

\* a thread that is not running (not started, or ended) has no locals; e is
\* the exception its handler has caught, out what the thread has emitted and
\* committed so far
NoPump ==
    [pc |-> "none", buffer |-> <<>>, message |-> <<>>, tmp |-> 0,
     duration |-> None, e |-> None, out |-> <<>>]

\* a thread entering read_serial_data: buffer = ""
NewPump == [NoPump EXCEPT !.pc = "loop"]

Ended(rec) == [NoPump EXCEPT !.pc = "done", !.out = rec.out]

Live(p) == pump[p].pc \notin {"none", "done"}

At(rec, pc) == [rec EXCEPT !.pc = pc]

\* socketio.emit(...)
Emit(rec, n) == [rec EXCEPT !.out = Append(@, n)]

\* a wake-up that starts from an empty buffer (buffer = "" inside the loop)
SleepDropsBuffer(rec) == [rec EXCEPT !.pc = "loop", !.buffer = <<>>]

\* time.sleep(0.1) at the end of a wake-up; the buffer outlives it
Sleep(rec) == At(rec, "loop")

\* process_serial_message returns into the inner loop, which clears the buffer
Return(rec) ==
    [rec EXCEPT !.pc = "in_waiting", !.buffer = <<>>, !.message = <<>>,
                !.duration = None]

port_closed == "port closed"
commit_failed == "commit failed"

\* an exception reaches the handler of read_serial_data: except Exception as e
Raise(rec, e) == [Ended(rec) EXCEPT !.pc = "except", !.e = Some(e)]

Run(p, rec) == pump' = [pump EXCEPT ![p] = rec]

-----------------------------------------------------------------------------
(* read_serial_data *)

\* while reading and ser and ser.is_open
PumpLoop(p) ==
    /\ pump[p].pc = "loop"
    /\ Run(p, IF reading /\ ser = "open" THEN At(pump[p], "in_waiting")
              ELSE Ended(pump[p]))
    /\ UNCHANGED <<wire, globals, now, sink, npump, req, nreq, device>>

\* the inner loop clearing the buffer only after a line it has handed on
FramedKeepsBlank(rec, byte) ==
    LET char == Decode(byte)
        buffer == rec.buffer \o char
        line == Strip(buffer)
    IN  IF char = <<"\n">> \/ char = <<"\r">>
        THEN IF line # <<>>
             THEN [rec EXCEPT !.pc = "psm", !.buffer = buffer, !.message = line]
             ELSE [rec EXCEPT !.pc = "in_waiting", !.buffer = buffer]
        ELSE IF char = <<".">> /\ IsIn(calibrating_sensor, buffer)
             THEN [rec EXCEPT !.pc = "dot_load", !.buffer = buffer]
             ELSE [rec EXCEPT !.pc = "in_waiting", !.buffer = buffer]

\* what the inner loop does with one byte: decode, append, then the
\* terminator test, the dot test, or nothing
Framed(rec, byte) ==
    LET char == Decode(byte)
        buffer == rec.buffer \o char
        line == Strip(buffer)
    IN  IF char = <<"\n">> \/ char = <<"\r">>
        THEN IF line # <<>>
             THEN [rec EXCEPT !.pc = "psm", !.buffer = buffer, !.message = line]
             ELSE [rec EXCEPT !.pc = "in_waiting", !.buffer = <<>>]
        ELSE IF char = <<".">> /\ IsIn(calibrating_sensor, buffer)
             THEN [rec EXCEPT !.pc = "dot_load", !.buffer = buffer]
             ELSE [rec EXCEPT !.pc = "in_waiting", !.buffer = buffer]

\* One turn of the inner loop: ser.in_waiting > 0 (of the if and of the
\* while) and byte = ser.read(1).  With nothing waiting the thread sleeps.  A
\* byte taken by another thread between the test and the read makes read(1)
\* time out and return b'', which ends the turn like an empty buffer.
PumpRead(p) ==
    /\ pump[p].pc = "in_waiting"
    /\ ser = "open"
    /\ IF rx # <<>>
       THEN rx' = Tail(rx) /\ Run(p, Framed(pump[p], Head(rx)))
       ELSE rx' = rx /\ Run(p, Sleep(pump[p]))
    /\ UNCHANGED <<ser, globals, now, sink, npump, req, nreq, device>>

\* ser.in_waiting or ser.read on a port that was closed meanwhile raises
PumpReadRaises(p) ==
    /\ pump[p].pc = "in_waiting"
    /\ ser # "open"
    /\ Run(p, Raise(pump[p], port_closed))
    /\ UNCHANGED <<wire, globals, now, sink, npump, req, nreq, device>>

\* calibration_dots_received += 1: the load ...
PumpDotLoad(p) ==
    /\ pump[p].pc = "dot_load"
    /\ Run(p, [pump[p] EXCEPT !.tmp = calibration_dots_received,
                              !.pc = "dot_store"])
    /\ UNCHANGED <<wire, globals, now, sink, npump, req, nreq, device>>

\* ... and the store
PumpDotStore(p) ==
    /\ pump[p].pc = "dot_store"
    /\ calibration_dots_received' = pump[p].tmp + 1
    /\ Run(p, [pump[p] EXCEPT !.tmp = 0, !.pc = "ucp_check"])
    /\ UNCHANGED <<wire, serial_connected, reading, current_motion_start,
                   calibration_start_time, now, sink, npump, req, nreq,
                   device>>

\* update_calibration_progress: if calibration_dots_received > 0
PumpProgressCheck(p) ==
    /\ pump[p].pc = "ucp_check"
    /\ Run(p, At(pump[p], IF calibration_dots_received > 0 THEN "ucp_emit"
                          ELSE "in_waiting"))
    /\ UNCHANGED <<wire, globals, now, sink, npump, req, nreq, device>>

\* the notification update_calibration_progress builds from a dot count
update_calibration_progress(dots) ==
    CalibrationProgressDots(ProgressOf(dots), RemainingOf(dots), dots)

PumpProgressEmit(p) ==
    /\ pump[p].pc = "ucp_emit"
    /\ Run(p, At(Emit(pump[p],
                      update_calibration_progress(calibration_dots_received)),
                 "in_waiting"))
    /\ UNCHANGED <<wire, globals, now, sink, npump, req, nreq, device>>

\* except Exception: if reading: log_event(...); break
PumpExcept(p) ==
    /\ pump[p].pc = "except"
    /\ Run(p, Ended(IF reading
                    THEN Emit(pump[p], log_event("system", "Serial read error: ", pump[p].e))
                    ELSE pump[p]))
    /\ UNCHANGED <<wire, globals, now, sink, npump, req, nreq, device>>

-----------------------------------------------------------------------------
(* process_serial_message, called by the pump with the stripped line *)

\* datetime.now(): the clock is observed only where the program reads it, and
\* a reading is never earlier than the one before
ReadClock == \E t \in now..MaxTime : now' = t

\* the classification without the serial_data notification before it
PsmSerialDataOmitted(p) ==
    /\ pump[p].pc = "psm"
    /\ Run(p, At(pump[p], BranchOf(pump[p].message)))
    /\ UNCHANGED <<wire, globals, now, sink, npump, req, nreq, device>>

\* socketio.emit('serial_data', ...), then the classification
PsmSerialData(p) ==
    /\ pump[p].pc = "psm"
    /\ Run(p, At(Emit(pump[p], SerialData(pump[p].message)),
                 BranchOf(pump[p].message)))
    /\ UNCHANGED <<wire, globals, now, sink, npump, req, nreq, device>>

\* the calibration branch without its calibration_dots_received = 0
PsmCalibrationSetKeepsDots(p) ==
    /\ pump[p].pc = "cal_set"
    /\ ReadClock
    /\ calibration_start_time' = Some(now')
    /\ Run(p, At(pump[p], "cal_status"))
    /\ UNCHANGED <<wire, serial_connected, reading, current_motion_start,
                   calibration_dots_received, sink, npump, req, nreq, device>>

\* "calibrating sensor": calibration_start_time = now; calibration_dots_received = 0
PsmCalibrationSet(p) ==
    /\ pump[p].pc = "cal_set"
    /\ ReadClock
    /\ calibration_start_time' = Some(now')
    /\ calibration_dots_received' = 0
    /\ Run(p, At(pump[p], "cal_status"))
    /\ UNCHANGED <<wire, serial_connected, reading, current_motion_start,
                   sink, npump, req, nreq, device>>

PsmCalibrationStatus(p) ==
    /\ pump[p].pc = "cal_status"
    /\ Run(p, At(Emit(pump[p], SensorStatus("calibrating")), "cal_log"))
    /\ UNCHANGED <<wire, globals, now, sink, npump, req, nreq, device>>

PsmCalibrationLog(p) ==
    /\ pump[p].pc = "cal_log"
    /\ Run(p, Return(Emit(pump[p],
                  log_event("system", "Sensor calibration started...", None))))
    /\ UNCHANGED <<wire, globals, now, sink, npump, req, nreq, device>>

\* "sensor active"
PsmActiveStatus(p) ==
    /\ pump[p].pc = "act_status"
    /\ Run(p, At(Emit(pump[p], SensorStatus("active")), "act_progress"))
    /\ UNCHANGED <<wire, globals, now, sink, npump, req, nreq, device>>

PsmActiveProgress(p) ==
    /\ pump[p].pc = "act_progress"
    /\ Run(p, At(Emit(pump[p], CalibrationProgress(Percent(100), 0, FALSE)),
                 "act_log"))
    /\ UNCHANGED <<wire, globals, now, sink, npump, req, nreq, device>>

PsmActiveLog(p) ==
    /\ pump[p].pc = "act_log"
    /\ Run(p, Return(Emit(pump[p],
                  log_event("system", "Sensor active and armed - Ready for detection", None))))
    /\ UNCHANGED <<wire, globals, now, sink, npump, req, nreq, device>>

\* "motion detected"
PsmDetectedStatus(p) ==
    /\ pump[p].pc = "det_status"
    /\ Run(p, At(Emit(pump[p], MotionDetectedStatus(pump[p].message)), "det_set"))
    /\ UNCHANGED <<wire, globals, now, sink, npump, req, nreq, device>>

PsmDetectedSet(p) ==
    /\ pump[p].pc = "det_set"
    /\ ReadClock
    /\ current_motion_start' = Some(now')
    /\ Run(p, At(pump[p], "det_commit"))
    /\ UNCHANGED <<wire, serial_connected, reading, calibration_start_time,
                   calibration_dots_received, sink, npump, req, nreq, device>>

\* db.session.add(event); db.session.commit()
Commit(rec, row) == Emit(rec, Committed(row))

PsmDetectedCommit(p) ==
    /\ pump[p].pc = "det_commit"
    /\ LET row == IntrusionEvent("motion_start", pump[p].message, None)
       IN  /\ sink' = Append(sink, row)
           /\ Run(p, At(Commit(pump[p], row), "det_log"))
    /\ UNCHANGED <<wire, globals, now, npump, req, nreq, device>>

\* the commit raises: the exception leaves process_serial_message and is
\* caught by the handler of read_serial_data
PsmDetectedCommitRaises(p) ==
    /\ pump[p].pc = "det_commit"
    /\ Run(p, Raise(pump[p], commit_failed))
    /\ UNCHANGED <<wire, globals, now, sink, npump, req, nreq, device>>

PsmDetectedLog(p) ==
    /\ pump[p].pc = "det_log"
    /\ Run(p, At(Emit(pump[p], log_event("motion_start", "MOTION DETECTED!", None)),
                 "det_alert"))
    /\ UNCHANGED <<wire, globals, now, sink, npump, req, nreq, device>>

PsmDetectedAlert(p) ==
    /\ pump[p].pc = "det_alert"
    /\ Run(p, Return(Emit(pump[p], MotionAlert)))
    /\ UNCHANGED <<wire, globals, now, sink, npump, req, nreq, device>>

\* "motion ended": duration = None; if current_motion_start: duration = now - it
DurationSince(start, t) == IF start # None THEN Some(t - start[1]) ELSE None

PsmEndedDuration(p) ==
    /\ pump[p].pc = "end_duration"
    /\ IF current_motion_start # None THEN ReadClock ELSE now' = now
    /\ Run(p, [pump[p] EXCEPT
                  !.duration = DurationSince(current_motion_start, now'),
                  !.pc = "end_status"])
    /\ UNCHANGED <<wire, globals, sink, npump, req, nreq, device>>

PsmEndedStatus(p) ==
    /\ pump[p].pc = "end_status"
    /\ Run(p, At(Emit(pump[p], MotionEndedStatus(pump[p].message, pump[p].duration)),
                 "end_commit"))
    /\ UNCHANGED <<wire, globals, now, sink, npump, req, nreq, device>>

PsmEndedCommit(p) ==
    /\ pump[p].pc = "end_commit"
    /\ LET row == IntrusionEvent("motion_end", pump[p].message, pump[p].duration)
       IN  /\ sink' = Append(sink, row)
           /\ Run(p, At(Commit(pump[p], row), "end_log"))
    /\ UNCHANGED <<wire, globals, now, npump, req, nreq, device>>

PsmEndedCommitRaises(p) ==
    /\ pump[p].pc = "end_commit"
    /\ Run(p, Raise(pump[p], commit_failed))
    /\ UNCHANGED <<wire, globals, now, sink, npump, req, nreq, device>>

\* duration_text = f' (Duration: ...)' if duration else '': a zero duration prints none
DurationText(duration) ==
    IF duration # None /\ duration[1] # 0 THEN duration ELSE None

PsmEndedLog(p) ==
    /\ pump[p].pc = "end_log"
    /\ Run(p, At(Emit(pump[p], log_event("motion_end", "Motion ended",
                                         DurationText(pump[p].duration))),
                 "end_clear"))
    /\ UNCHANGED <<wire, globals, now, sink, npump, req, nreq, device>>

PsmEndedClear(p) ==
    /\ pump[p].pc = "end_clear"
    /\ current_motion_start' = None
    /\ Run(p, Return(pump[p]))
    /\ UNCHANGED <<wire, serial_connected, reading, calibration_start_time,
                   calibration_dots_received, now, sink, npump, req, nreq,
                   device>>

\* any other line
PsmOtherLog(p) ==
    /\ pump[p].pc = "other_log"
    /\ Run(p, Return(Emit(pump[p], log_event("system", "Arduino: ", pump[p].message))))
    /\ UNCHANGED <<wire, globals, now, sink, npump, req, nreq, device>>

-----------------------------------------------------------------------------
(* connect_serial, run by a request thread *)

\* a request thread between requests keeps what its last call did: op, what
\* it returned (result), whether serial_connected held when it began (active)
\* and what it emitted (out)
NoCall == [pc |-> "idle", op |-> "none", result |-> "none", active |-> FALSE,
           out |-> <<>>]

Call(op, pc) == [pc |-> pc, op |-> op, result |-> "none",
                 active |-> serial_connected, out |-> <<>>]

Returned(rec, result) == [rec EXCEPT !.pc = "idle", !.result = result]

Serve(r, rec) == req' = [req EXCEPT ![r] = rec]

ConnectCall(r) ==
    /\ req[r].pc = "idle"
    /\ nreq < MaxRequests
    /\ nreq' = nreq + 1
    /\ Serve(r, Call("connect", "c_close"))
    /\ UNCHANGED <<wire, globals, now, sink, pump, npump, device>>

\* if ser and ser.is_open: ser.close(); time.sleep(1)
ConnectClose(r) ==
    /\ req[r].pc = "c_close"
    /\ IF ser = "open"
       THEN ser' = "closed" /\ rx' = <<>>
       ELSE UNCHANGED wire
    /\ Serve(r, At(req[r], "c_open"))
    /\ UNCHANGED <<globals, now, sink, pump, npump, nreq, device>>

\* ser = serial.Serial(...): the port opens
ConnectOpen(r) ==
    /\ req[r].pc = "c_open"
    /\ ser' = "open"
    /\ rx' = <<>>
    /\ Serve(r, At(req[r], "c_reset"))
    /\ UNCHANGED <<globals, now, sink, pump, npump, nreq, device>>

\* serial.Serial(...) raises: ser keeps the object it had
ConnectOpenRaises(r) ==
    /\ req[r].pc = "c_open"
    /\ Serve(r, At(req[r], "c_error"))
    /\ UNCHANGED <<wire, globals, now, sink, pump, npump, nreq, device>>

\* ser.reset_input_buffer(); ser.reset_output_buffer(); time.sleep(2)
ConnectReset(r) ==
    /\ req[r].pc = "c_reset"
    /\ rx' = <<>>
    /\ Serve(r, At(req[r], "c_flags"))
    /\ UNCHANGED <<ser, globals, now, sink, pump, npump, nreq, device>>

ConnectFlags(r) ==
    /\ req[r].pc = "c_flags"
    /\ serial_connected' = TRUE
    /\ reading' = TRUE
    /\ calibration_start_time' = None
    /\ calibration_dots_received' = 0
    /\ Serve(r, At(req[r], "c_thread"))
    /\ UNCHANGED <<wire, current_motion_start, now, sink, pump, npump, nreq,
                   device>>

\* threading.Thread(target=read_serial_data, daemon=True).start()
ConnectThread(r) ==
    /\ req[r].pc = "c_thread"
    /\ npump' = npump + 1
    /\ pump' = [pump EXCEPT ![npump + 1] = NewPump]
    /\ Serve(r, At(req[r], "c_status"))
    /\ UNCHANGED <<wire, globals, now, sink, nreq, device>>

ConnectStatus(r) ==
    /\ req[r].pc = "c_status"
    /\ Serve(r, At(Emit(req[r], SerialStatusConnected(default_port)), "c_log"))
    /\ UNCHANGED <<wire, globals, now, sink, pump, npump, nreq, device>>

ConnectLog(r) ==
    /\ req[r].pc = "c_log"
    /\ Serve(r, Returned(Emit(req[r],
                    log_event("system", "Connected to Arduino on ", default_port)),
                "True"))
    /\ UNCHANGED <<wire, globals, now, sink, pump, npump, nreq, device>>

\* except Exception as e: socketio.emit('serial_error', ...)
ConnectError(r) ==
    /\ req[r].pc = "c_error"
    /\ Serve(r, At(Emit(req[r], SerialError("could not open port")), "c_error_log"))
    /\ UNCHANGED <<wire, globals, now, sink, pump, npump, nreq, device>>

ConnectErrorLog(r) ==
    /\ req[r].pc = "c_error_log"
    /\ Serve(r, Returned(Emit(req[r],
                    log_event("system", "Connection failed: ", "could not open port")),
                "False"))
    /\ UNCHANGED <<wire, globals, now, sink, pump, npump, nreq, device>>

-----------------------------------------------------------------------------
(* disconnect_serial, run by a request thread *)

DisconnectCall(r) ==
    /\ req[r].pc = "idle"
    /\ nreq < MaxRequests
    /\ nreq' = nreq + 1
    /\ Serve(r, Call("disconnect", "d_flags"))
    /\ UNCHANGED <<wire, globals, now, sink, pump, npump, device>>

DisconnectFlags(r) ==
    /\ req[r].pc = "d_flags"
    /\ reading' = FALSE
    /\ serial_connected' = FALSE
    /\ calibration_start_time' = None
    /\ calibration_dots_received' = 0
    /\ Serve(r, At(req[r], "d_close"))
    /\ UNCHANGED <<wire, current_motion_start, now, sink, pump, npump, nreq,
                   device>>

\* if ser and ser.is_open: ser.close()
DisconnectClose(r) ==
    /\ req[r].pc = "d_close"
    /\ IF ser = "open"
       THEN ser' = "closed" /\ rx' = <<>>
       ELSE UNCHANGED wire
    /\ Serve(r, At(req[r], "d_status"))
    /\ UNCHANGED <<globals, now, sink, pump, npump, nreq, device>>

\* disconnect_serial reporting only when it found the system connected
DisconnectStatusIfConnected(r) ==
    /\ req[r].pc = "d_status"
    /\ Serve(r, At(IF req[r].active THEN Emit(req[r], SerialStatusDisconnected)
                    ELSE req[r],
                   "d_progress"))
    /\ UNCHANGED <<wire, globals, now, sink, pump, npump, nreq, device>>

DisconnectStatus(r) ==
    /\ req[r].pc = "d_status"
    /\ Serve(r, At(Emit(req[r], SerialStatusDisconnected), "d_progress"))
    /\ UNCHANGED <<wire, globals, now, sink, pump, npump, nreq, device>>

\* disconnect_serial without its calibration_progress notification
DisconnectProgressSilent(r) ==
    /\ req[r].pc = "d_progress"
    /\ Serve(r, At(req[r], "d_log"))
    /\ UNCHANGED <<wire, globals, now, sink, pump, npump, nreq, device>>

DisconnectProgress(r) ==
    /\ req[r].pc = "d_progress"
    /\ Serve(r, At(Emit(req[r], CalibrationProgress(0, total_calibration_time, FALSE)),
                   "d_log"))
    /\ UNCHANGED <<wire, globals, now, sink, pump, npump, nreq, device>>

DisconnectLog(r) ==
    /\ req[r].pc = "d_log"
    /\ Serve(r, Returned(Emit(req[r],
                    log_event("system", "Disconnected from Arduino", None)),
                "None"))
    /\ UNCHANGED <<wire, globals, now, sink, pump, npump, nreq, device>>

-----------------------------------------------------------------------------
(* The device *)

\* the device's next write reaches the input buffer of the open port
DeviceSend ==
    /\ ser = "open"
    /\ sent < Len(script)
    /\ rx' = rx \o script[sent + 1]
    /\ sent' = sent + 1
    /\ UNCHANGED <<ser, globals, now, sink, pump, npump, req, nreq, script>>

-----------------------------------------------------------------------------
(* The system *)

Line(words) == words \o <<"\r", "\n">>

\* what the device writes in one behaviour, write by write
Scripts ==
    { <<Line(motion_detected), Line(motion_ended)>>,
      <<calibrating_sensor, <<".">>, <<".">>, Line(<<>>) \o Line(sensor_active)>>,
      <<<<"CALIBRATING", " ", "SENSOR">>, <<".">>, <<".">>,
        Line(<<>>) \o Line(sensor_active)>> }

InitGlobals ==
    /\ ser = "None"
    /\ serial_connected = FALSE
    /\ reading = FALSE
    /\ current_motion_start = None
    /\ calibration_start_time = None
    /\ calibration_dots_received = 0

Init ==
    /\ InitGlobals
    /\ rx = <<>>
    /\ now = 0
    /\ sink = <<>>
    /\ pump = [p \in PumpIds |-> NoPump]
    /\ npump = 0
    /\ req = [r \in ReqIds |-> NoCall]
    /\ nreq = 0
    /\ script \in Scripts
    /\ sent = 0

PumpStep(p) ==
    \/ PumpLoop(p) \/ PumpRead(p) \/ PumpReadRaises(p)
    \/ PumpDotLoad(p) \/ PumpDotStore(p)
    \/ PumpProgressCheck(p) \/ PumpProgressEmit(p)
    \/ PumpExcept(p)

PsmStep(p) ==
    \/ PsmSerialData(p)
    \/ PsmCalibrationSet(p) \/ PsmCalibrationStatus(p) \/ PsmCalibrationLog(p)
    \/ PsmActiveStatus(p) \/ PsmActiveProgress(p) \/ PsmActiveLog(p)
    \/ PsmDetectedStatus(p) \/ PsmDetectedSet(p) \/ PsmDetectedCommit(p)
    \/ PsmDetectedLog(p) \/ PsmDetectedAlert(p)
    \/ PsmEndedDuration(p) \/ PsmEndedStatus(p) \/ PsmEndedCommit(p)
    \/ PsmEndedLog(p) \/ PsmEndedClear(p)
    \/ PsmOtherLog(p)

SinkRaises(p) == PsmDetectedCommitRaises(p) \/ PsmEndedCommitRaises(p)

ConnectStep(r) ==
    \/ ConnectCall(r) \/ ConnectClose(r) \/ ConnectOpen(r)
    \/ ConnectOpenRaises(r) \/ ConnectReset(r) \/ ConnectFlags(r)
    \/ ConnectThread(r) \/ ConnectStatus(r) \/ ConnectLog(r)
    \/ ConnectError(r) \/ ConnectErrorLog(r)

DisconnectStep(r) ==
    \/ DisconnectCall(r) \/ DisconnectFlags(r) \/ DisconnectClose(r)
    \/ DisconnectStatus(r) \/ DisconnectProgress(r) \/ DisconnectLog(r)

Next ==
    \/ \E p \in PumpIds : PumpStep(p) \/ PsmStep(p) \/ SinkRaises(p)
    \/ \E r \in ReqIds : ConnectStep(r) \/ DisconnectStep(r)
    \/ DeviceSend

Spec == Init /\ [][Next]_vars

\* a thread inside disconnect_serial is scheduled again: the function takes
\* no lock and waits for nothing
DisconnectRuns(r) ==
    \/ DisconnectFlags(r) \/ DisconnectClose(r)
    \/ DisconnectStatus(r) \/ DisconnectProgress(r) \/ DisconnectLog(r)

FairSpec == Spec /\ \A r \in ReqIds : WF_vars(DisconnectRuns(r))

-----------------------------------------------------------------------------
(* One session on its own: the state connect_serial leaves when it returns *)
(* True at start-up, and from there only the session's pump, the device    *)
(* and the database act.  The device delivers symbol by symbol, so every   *)
(* split of the input over the wake-ups of the pump occurs.                *)

Phrases ==
    { calibrating_sensor, sensor_active, motion_detected, motion_ended,
      <<"CALIBRATING", " ", "SENSOR">>, <<"MOTION", " ", "DETECTED">>,
      <<"active">>, <<"x">>, <<" ">>, <<".">>, <<"0x80">>,
      <<"\n">>, <<"\r">> }

RECURSIVE Texts(_)
Texts(n) ==
    IF n = 0 THEN {<<>>}
    ELSE LET shorter == Texts(n - 1)
         IN  shorter \cup {t \o ph : t \in shorter, ph \in Phrases}

BySymbol(text) == [i \in 1..Len(text) |-> <<text[i]>>]

\* the session with its pump at rec and the dot counter at dots, n requests
\* counted so far
SessionAt(rec, dots, n) ==
    /\ ser = "open"
    /\ rx = <<>>
    /\ serial_connected = TRUE
    /\ reading = TRUE
    /\ current_motion_start = None
    /\ calibration_start_time = None
    /\ calibration_dots_received = dots
    /\ now = 0
    /\ sink = <<>>
    /\ pump = [p \in PumpIds |-> IF p = 1 THEN rec ELSE NoPump]
    /\ npump = 1
    /\ req = [r \in ReqIds |->
                [pc |-> "idle", op |-> "connect", result |-> "True",
                 active |-> FALSE,
                 out |-> <<SerialStatusConnected(default_port),
                           log_event("system", "Connected to Arduino on ",
                                     default_port)>>]]
    /\ nreq = n
    /\ sent = 0

\* the session with connect_serial as the one request made
Session(rec, dots) == SessionAt(rec, dots, 1)

Connected == Session(NewPump, 0)

InitFramer ==
    /\ Connected
    /\ script \in {BySymbol(t) : t \in Texts(MaxPhrases)}

NextFramer ==
    \/ \E p \in PumpIds :
          \/ PumpLoop(p) \/ PumpRead(p)
          \/ PumpDotLoad(p) \/ PumpDotStore(p)
          \/ PumpProgressCheck(p) \/ PumpProgressEmit(p)
          \/ PumpExcept(p)
          \/ PsmStep(p) \/ SinkRaises(p)
    \/ DeviceSend

SpecFramer == InitFramer /\ [][NextFramer]_vars

-----------------------------------------------------------------------------
(* update_calibration_progress on its own: the pump has just stored a dot  *)
(* count and calls it                                                      *)

InitProgress ==
    /\ \E dots \in 0..MaxDots : Session(At(NewPump, "ucp_check"), dots)
    /\ script = <<>>

NextProgress ==
    \E p \in PumpIds : PumpProgressCheck(p) \/ PumpProgressEmit(p) \/ PumpRead(p)

SpecProgress == InitProgress /\ [][NextProgress]_vars

-----------------------------------------------------------------------------
(* What the properties below read off a state *)

Terminators == {"\n", "\r"}

Last(seq) == seq[Len(seq)]

Named(out, name) == SelectSeq(out, LAMBDA n : n.name = name)

RECURSIVE Flatten(_)
Flatten(writes) ==
    IF writes = <<>> THEN <<>> ELSE Head(writes) \o Flatten(Tail(writes))

\* the bytes that have left the input buffer of the session's port
Consumed ==
    LET arrived == Flatten(SubSeq(script, 1, sent))
    IN  SubSeq(arrived, 1, Len(arrived) - Len(rx))

\* the lines a pump has called process_serial_message with
Handed(p) ==
    LET data == Named(pump[p].out, "serial_data")
    IN  [i \in 1..Len(data) |-> data[i].message]
        \o (IF pump[p].pc = "psm" THEN <<pump[p].message>> ELSE <<>>)

\* the lines the inner loop hands on when it runs over bytes in one wake-up
RECURSIVE WholeInput(_, _)
WholeInput(bytes, buffer) ==
    IF bytes = <<>> THEN <<>>
    ELSE LET rec == Framed([NewPump EXCEPT !.buffer = buffer], Head(bytes))
         IN  IF rec.pc = "psm"
             THEN <<rec.message>> \o WholeInput(Tail(bytes), <<>>)
             ELSE WholeInput(Tail(bytes), rec.buffer)

Has(marker, message) == IsIn(marker, Lower(message))

CalibrationPcs == {"cal_set", "cal_status", "cal_log"}
ActivePcs == {"act_status", "act_progress", "act_log"}
DetectedPcs == {"det_status", "det_set", "det_commit", "det_log", "det_alert"}
EndedPcs == {"end_duration", "end_status", "end_commit", "end_log", "end_clear"}
OtherPcs == {"other_log"}
PsmPcs == {"psm"} \cup CalibrationPcs \cup ActivePcs \cup DetectedPcs
              \cup EndedPcs \cup OtherPcs

\* the notification that tells which kind a line was taken for
KindEvent(n) ==
    \/ n.name \in {"sensor_status", "motion_status"}
    \/ n.name = "log_update" /\ n.text = "Arduino: "

IsActiveProgress(n) == n.name = "calibration_progress" /\ n.active

Blank(buffer) == \A i \in 1..Len(buffer) : buffer[i] \in Whitespace

\* some pump takes a terminator from the port
TerminatorRead ==
    /\ rx # <<>>
    /\ Head(rx) \in Terminators
    /\ rx' = Tail(rx)
    /\ ser' = ser

-----------------------------------------------------------------------------
(* C2.  Classifier priority: a line is handled by the branch of the first  *)
(* rule, in the order calibrating sensor, sensor active, motion detected,  *)
(* motion ended, other, whose marker occurs in the lowercased line, and    *)
(* every line handed to process_serial_message yields exactly one event.   *)

C2_ClassifierPriority ==
    \A p \in PumpIds :
        LET m == pump[p].message
            pc == pump[p].pc
            lines == Len(Named(pump[p].out, "serial_data"))
            events == Len(SelectSeq(pump[p].out, KindEvent))
        IN  /\ pc \in CalibrationPcs => Has(calibrating_sensor, m)
            /\ pc \in ActivePcs =>
                   /\ Has(sensor_active, m)
                   /\ ~Has(calibrating_sensor, m)
            /\ pc \in DetectedPcs =>
                   /\ Has(motion_detected, m)
                   /\ ~Has(calibrating_sensor, m) /\ ~Has(sensor_active, m)
            /\ pc \in EndedPcs =>
                   /\ Has(motion_ended, m)
                   /\ ~Has(calibrating_sensor, m) /\ ~Has(sensor_active, m)
                   /\ ~Has(motion_detected, m)
            /\ pc \in OtherPcs =>
                   /\ ~Has(calibrating_sensor, m) /\ ~Has(sensor_active, m)
                   /\ ~Has(motion_detected, m) /\ ~Has(motion_ended, m)
            /\ events <= lines
            /\ lines <= events + 1
            /\ pc \notin PsmPcs => events = lines

\* a line with both motion markers is in the motion-detected branch
C2_Witness ==
    \E p \in PumpIds :
        /\ pump[p].pc = "det_commit"
        /\ Has(motion_detected, pump[p].message)
        /\ Has(motion_ended, pump[p].message)

-----------------------------------------------------------------------------
(* C3.  Chunk-boundary independence: whatever the wake-ups at which the    *)
(* bytes of a session became available, the lines its pump has handed to   *)
(* process_serial_message are those the inner loop hands on when it runs   *)
(* over the same bytes in one go.                                          *)

C3_ChunkIndependence ==
    Live(1) => Handed(1) = WholeInput(Consumed, <<>>)

\* the pump has handed on a line and sleeps in the middle of the next one
C3_Witness ==
    /\ pump[1].pc = "loop"
    /\ pump[1].buffer # <<>>
    /\ Len(Handed(1)) = 1
    /\ Len(Handed(1)[1]) > 1

-----------------------------------------------------------------------------
(* C4.  Empty line: a pump that reads a terminator while its buffer holds  *)
(* nothing but whitespace hands on no line, emits and commits nothing,     *)
(* changes no global, and goes on with an empty buffer.                    *)

C4_EmptyLine ==
    [][TerminatorRead =>
         \A p \in PumpIds :
             ( /\ pump[p].pc = "in_waiting"
               /\ Blank(pump[p].buffer)
               /\ \/ pump'[p] # pump[p]
                  \/ pump' = pump /\ pump[p].buffer = <<>> )
             => /\ pump'[p].pc = "in_waiting"
                /\ pump'[p].buffer = <<>>
                /\ pump'[p].message = <<>>
                /\ pump'[p].out = pump[p].out
                /\ sink' = sink
                /\ UNCHANGED globals]_vars

\* a blank line has been read and dropped, nothing emitted
C4_Witness ==
    /\ Consumed = <<" ", "\n">>
    /\ pump[1].pc = "in_waiting"
    /\ pump[1].buffer = <<>>
    /\ pump[1].out = <<>>

-----------------------------------------------------------------------------
(* C6.  Calibration progress: in a session calibration_dots_received only  *)
(* decreases in the step that classifies a calibrating-sensor line, that   *)
(* step sets it to 0, and between two such steps the dots and progress     *)
(* values of the active calibration_progress notifications do not decrease.*)

CalibrationStartStep(p) ==
    pump[p].pc = "cal_set" /\ pump'[p].pc = "cal_status"

ProgressNonDecreasing(out) ==
    \A i, j \in 1..Len(out) :
        ( /\ i < j
          /\ IsActiveProgress(out[i])
          /\ IsActiveProgress(out[j])
          /\ \A k \in i..j : out[k] # SensorStatus("calibrating") )
        => /\ out[i].dots <= out[j].dots
           /\ out[i].progress <= out[j].progress

C6_DotsMonotone ==
    /\ [](\A p \in PumpIds : ProgressNonDecreasing(pump[p].out))
    /\ [][ /\ calibration_dots_received' < calibration_dots_received
              => \E p \in PumpIds : CalibrationStartStep(p)
           /\ \A p \in PumpIds :
                 CalibrationStartStep(p) => calibration_dots_received' = 0 ]_vars

\* dots were counted and published, and the classification has reset them
C6_Witness ==
    \E p \in PumpIds :
        /\ pump[p].pc = "cal_status"
        /\ calibration_dots_received = 0
        /\ \E i \in 1..Len(pump[p].out) :
              IsActiveProgress(pump[p].out[i]) /\ pump[p].out[i].dots = 1

-----------------------------------------------------------------------------
(* C7.  Progress clamping: every notification update_calibration_progress  *)
(* publishes has progress = min(100, dots / 30 * 100) and                  *)
(* remaining = max(0, 30 - dots), so both stay within 0..100 and 0..30,    *)
(* also for dot counts above total_calibration_time.                       *)

C7_ProgressClamped ==
    \A p \in PumpIds : \A i \in 1..Len(pump[p].out) :
        LET n == pump[p].out[i]
        IN  IsActiveProgress(n) =>
              /\ 0 <= n.progress /\ n.progress <= Percent(100)
              /\ 0 <= n.remaining /\ n.remaining <= total_calibration_time
              /\ n.dots <= total_calibration_time =>
                    /\ n.progress = n.dots * 100
                    /\ n.remaining = total_calibration_time - n.dots
              /\ n.dots >= total_calibration_time =>
                    /\ n.progress = Percent(100)
                    /\ n.remaining = 0

\* 45 dots: progress 100, remaining 0
C7_Witness ==
    \E p \in PumpIds : \E i \in 1..Len(pump[p].out) :
        /\ IsActiveProgress(pump[p].out[i])
        /\ pump[p].out[i].dots = 45
        /\ pump[p].out[i].progress = Percent(100)
        /\ pump[p].out[i].remaining = 0

-----------------------------------------------------------------------------
(* C1.  Motion duration: a pump that leaves the motion-ended branch has    *)
(* returned from it without an error, has computed the duration as the     *)
(* clock reading minus current_motion_start when an episode was active and *)
(* as None otherwise, has committed the motion_end row with that duration, *)
(* and leaves current_motion_start = None.                                 *)

C1_MotionDuration ==
    [][\A p \in PumpIds :
         /\ ( pump[p].pc = "end_duration" /\ pump'[p].pc # "end_duration" )
            => pump'[p].duration =
                   IF current_motion_start # None
                   THEN Some(now' - current_motion_start[1]) ELSE None
         /\ ( pump[p].pc \in EndedPcs /\ pump'[p].pc \notin EndedPcs )
            => /\ pump'[p].pc = "in_waiting"
               /\ current_motion_start' = None
               /\ \E i \in 1..Len(sink') :
                     sink'[i] = IntrusionEvent("motion_end", pump[p].message,
                                               pump[p].duration)]_vars

-----------------------------------------------------------------------------
(* C5.  Calibration scenario: in a session nothing has disturbed, when the *)
(* line CALIBRATING SENSOR followed by dots reaches                        *)
(* process_serial_message, one active calibration_progress notification    *)
(* has been published for each of its dots; and the classification of      *)
(* sensor active publishes calibration_progress {100, 0, active: false}.   *)

Undisturbed ==
    /\ nreq = 1
    /\ \A r \in ReqIds : req[r].pc = "idle" /\ req[r].result = "True"

ScenarioLine(message) ==
    /\ Len(message) > 3
    /\ SubSeq(message, 1, 3) = <<"CALIBRATING", " ", "SENSOR">>
    /\ \A i \in 4..Len(message) : message[i] = "."

C5_CalibrationScenario ==
    Undisturbed =>
      \A p \in PumpIds :
        /\ ( pump[p].pc = "psm" /\ ScenarioLine(pump[p].message) )
           => Len(SelectSeq(pump[p].out, IsActiveProgress))
                  = Len(pump[p].message) - 3
        /\ pump[p].pc = "act_log"
           => Last(pump[p].out) = CalibrationProgress(Percent(100), 0, FALSE)

-----------------------------------------------------------------------------
(* C8.  Failed connect: when connect_serial has returned False it has      *)
(* published serial_error and a system log_update, has started no pump,    *)
(* and serial_connected and reading are both False.                        *)

C8_FailedConnectDisconnected ==
    \A r \in ReqIds :
        ( req[r].pc = "idle" /\ req[r].op = "connect" /\ req[r].result = "False" )
        => /\ req[r].out = <<SerialError("could not open port"),
                             log_event("system", "Connection failed: ",
                                       "could not open port")>>
           /\ ~serial_connected
           /\ ~reading

-----------------------------------------------------------------------------
(* C9.  Sink failure: a pump whose handler has caught the failure of a     *)
(* commit does not end; it goes on reading the session's lines.            *)

C9_SinkFailureSurvived ==
    [][\A p \in PumpIds :
         ( pump[p].pc = "except" /\ pump[p].e = Some(commit_failed) )
         => pump'[p].pc # "done"]_vars

-----------------------------------------------------------------------------
(* C10.  Disconnect always reports: a call of disconnect_serial made while *)
(* serial_connected holds, whatever the pump is doing, eventually returns  *)
(* having published serial_status disconnected and then                    *)
(* calibration_progress {0, total_calibration_time, active: false}.        *)

DisconnectReported(r) ==
    /\ req[r].pc = "idle"
    /\ req[r].op = "disconnect"
    /\ Len(req[r].out) >= 2
    /\ req[r].out[1] = SerialStatusDisconnected
    /\ req[r].out[2] = CalibrationProgress(0, total_calibration_time, FALSE)

C10_DisconnectReports ==
    \A r \in ReqIds :
        ( req[r].pc = "d_flags" /\ req[r].active ) ~> DisconnectReported(r)

\* the disconnect has reported while the pump is in the middle of an episode,
\* about to commit its start or to compute its duration
C10_Witness ==
    \E r \in ReqIds : \E p \in PumpIds :
        /\ DisconnectReported(r)
        /\ req[r].active
        /\ current_motion_start # None
        /\ pump[p].pc \in {"det_commit", "end_duration"}

-----------------------------------------------------------------------------
(* Requests that follow a session: the state connect_serial leaves when it *)
(* returns True, with the count of requests starting there.                *)

\* the scripts, and one with a second motion start, a second motion end and
\* a line of no kind
SessionScripts ==
    Scripts \cup
    { << Line(motion_detected), Line(motion_detected), Line(motion_ended),
         Line(motion_ended) \o Line(<<"x">>) >> }

Served == SessionAt(NewPump, 0, 0)

\* disconnect_serial, once or twice, on a system never connected or on a
\* session
InitDisconnect ==
    \/ Init
    \/ Served /\ script \in SessionScripts

NextDisconnect ==
    \/ \E p \in PumpIds : PumpStep(p) \/ PsmStep(p) \/ SinkRaises(p)
    \/ \E r \in ReqIds : DisconnectStep(r)
    \/ DeviceSend

SpecDisconnect == InitDisconnect /\ [][NextDisconnect]_vars

-----------------------------------------------------------------------------
(* C11.  Disconnect idempotence: every call of disconnect_serial, the      *)
(* second of two in a row and one on a system never connected included,    *)
(* resets reading, serial_connected and the calibration counters, returns  *)
(* None having published serial_status disconnected, the zeroed            *)
(* calibration_progress and the system log_update, and leaves the flags    *)
(* False and the port not open, as a single call does; where no pump was   *)
(* ever started the counters are still reset when it returns.              *)

DisconnectNotifications ==
    << SerialStatusDisconnected,
       CalibrationProgress(0, total_calibration_time, FALSE),
       log_event("system", "Disconnected from Arduino", None) >>

-----------------------------------------------------------------------------
(* Two request threads: the routes /api/connect of two clients served at   *)
(* the same time, from start-up, while the device reports one episode.     *)
(* The steps of the pump on calibration lines and dots are never enabled   *)
(* on these bytes and are left out of the next-state relation.             *)

OverlapIds == {"r1", "r2"}

InitOverlap ==
    /\ InitGlobals
    /\ rx = <<>>
    /\ now = MaxTime
    /\ sink = <<>>
    /\ pump = [p \in PumpIds |-> NoPump]
    /\ npump = 0
    /\ req = [r \in OverlapIds |-> NoCall]
    /\ nreq = 0
    /\ script = <<Line(motion_detected), Line(motion_ended)>>
    /\ sent = 0

MotionPump(p) ==
    \/ PumpLoop(p) \/ PumpRead(p) \/ PumpReadRaises(p) \/ PumpExcept(p)
    \/ PsmSerialData(p)
    \/ PsmDetectedStatus(p) \/ PsmDetectedSet(p) \/ PsmDetectedCommit(p)
    \/ PsmDetectedLog(p) \/ PsmDetectedAlert(p)
    \/ PsmEndedDuration(p) \/ PsmEndedStatus(p) \/ PsmEndedCommit(p)
    \/ PsmEndedLog(p) \/ PsmEndedClear(p)
    \/ PsmOtherLog(p)
    \/ SinkRaises(p)

NextOverlap ==
    \/ \E p \in PumpIds : MotionPump(p)
    \/ \E r \in OverlapIds : ConnectStep(r)
    \/ DeviceSend

SpecOverlap == InitOverlap /\ [][NextOverlap]_vars

-----------------------------------------------------------------------------
(* C12.  Single pump: at most one read_serial_data thread is live at any   *)
(* time, whatever the connect requests and their interleaving.             *)

LivePumps == {p \in PumpIds : Live(p)}

C12_SinglePump == Cardinality(LivePumps) <= 1

-----------------------------------------------------------------------------
(* C13.  Per-line order: in what a pump has published, a status            *)
(* notification comes right after the serial_data of its line, a commit    *)
(* right after the motion_status of its line, and the log_update of a line *)
(* after its serial_data, its status notification and, for a motion line,  *)
(* its commit; the rows committed are the rows of the sink, in order.      *)

\* the entry k places before the i-th, if there is one
Before(out, i, k) == IF i > k THEN out[i - k] ELSE [name |-> "nothing"]

LineOrder(out) ==
    \A i \in 1..Len(out) :
        LET n == out[i]
            b1 == Before(out, i, 1)
            b2 == Before(out, i, 2)
            b3 == Before(out, i, 3)
        IN  /\ n.name \in {"sensor_status", "motion_status"}
               => b1.name = "serial_data"
            /\ n.name = "motion_status" => b1.message = n.message
            /\ n.name = "db_commit"
               => /\ b1.name = "motion_status"
                  /\ b2.name = "serial_data"
                  /\ b2.message = n.row.message
            /\ ( n.name = "log_update" /\ n.type \in {"motion_start", "motion_end"} )
               => /\ b1.name = "db_commit"
                  /\ b1.row.event_type = n.type
                  /\ b2.name = "motion_status"
                  /\ b3.name = "serial_data"
            /\ ( n.name = "log_update" /\ n.text = "Sensor calibration started..." )
               => /\ b1 = SensorStatus("calibrating")
                  /\ b2.name = "serial_data"
            /\ ( n.name = "log_update"
                 /\ n.text = "Sensor active and armed - Ready for detection" )
               => /\ b1 = CalibrationProgress(Percent(100), 0, FALSE)
                  /\ b2 = SensorStatus("active")
                  /\ b3.name = "serial_data"
            /\ ( n.name = "log_update" /\ n.text = "Arduino: " )
               => b1 = SerialData(n.arg)
            /\ ( n.name = "serial_data" /\ i < Len(out) )
               => \/ out[i + 1].name \in {"sensor_status", "motion_status"}
                  \/ out[i + 1] = log_event("system", "Arduino: ", n.message)

C13_LineOrder ==
    /\ \A p \in PumpIds : LineOrder(pump[p].out)
    /\ LET rows == Named(pump[1].out, "db_commit")
       IN  sink = [i \in 1..Len(rows) |-> rows[i].row]

\* a motion line with its four entries in order, and the alert after them
C13_Witness ==
    \E p \in PumpIds :
        LET out == pump[p].out
        IN  /\ Len(out) = 5
            /\ out[1].name = "serial_data"
            /\ out[2].name = "motion_status"
            /\ out[3].name = "db_commit"
            /\ out[4].name = "log_update"
            /\ out[5] = MotionAlert

-----------------------------------------------------------------------------
(* A session whose device fails: ser.in_waiting or ser.read raises on the  *)
(* open port (the device was unplugged).  No request is made.              *)

read_failed == "device disconnected"

PumpReadFails(p) ==
    /\ pump[p].pc = "in_waiting"
    /\ ser = "open"
    /\ Run(p, Raise(pump[p], read_failed))
    /\ UNCHANGED <<wire, globals, now, sink, npump, req, nreq, device>>

\* what handle_connect tells a client that connects now about the port
handle_connect ==
    IF serial_connected THEN [name |-> "serial_status", status |-> "connected"]
    ELSE SerialStatusDisconnected

InitReadError ==
    /\ Connected
    /\ script \in SessionScripts

NextReadError ==
    \/ NextFramer
    \/ \E p \in PumpIds : PumpReadFails(p)

SpecReadError == InitReadError /\ [][NextReadError]_vars

-----------------------------------------------------------------------------
(* C14.  Read error: a pump that has ended on a failed read of a live      *)
(* session, having logged the error, leaves reading = False and            *)
(* serial_connected = False, and handle_connect reports disconnected.      *)

EndedOnReadError(p) ==
    /\ pump[p].pc = "done"
    /\ pump[p].out # <<>>
    /\ Last(pump[p].out)
           = log_event("system", "Serial read error: ", Some(read_failed))

C14_ReadErrorDisconnects ==
    \A p \in PumpIds :
        EndedOnReadError(p) =>
            /\ ~reading
            /\ ~serial_connected
            /\ handle_connect = SerialStatusDisconnected

-----------------------------------------------------------------------------
(* C15.  Fresh session: when connect_serial starts the pump of a new       *)
(* session and no pump of an earlier session is left, the new pump has an  *)
(* empty buffer, calibration_start_time is None, calibration_dots_received *)
(* is 0 and current_motion_start is None.                                  *)

SessionStarts(r) == req[r].pc = "c_thread" /\ req'[r].pc = "c_status"

C15_FreshSession ==
    [][\A r \in ReqIds :
         ( SessionStarts(r) /\ \A p \in PumpIds : ~Live(p) )
         => /\ pump'[npump'].pc = "loop"
            /\ pump'[npump'].buffer = <<>>
            /\ calibration_start_time' = None
            /\ calibration_dots_received' = 0
            /\ current_motion_start' = None]_vars

-----------------------------------------------------------------------------
(* C16.  CalibrationState: in a session calibration_dots_received is set   *)
(* to 0 when and only when a calibrating-sensor line is classified, and it *)
(* is incremented only while calibration_start_time is present.            *)

C16_CalibrationState ==
    [][ /\ (\E p \in PumpIds : CalibrationStartStep(p))
           => calibration_dots_received' = 0
        /\ calibration_dots_received' < calibration_dots_received
           => \E p \in PumpIds : CalibrationStartStep(p)
        /\ calibration_dots_received' > calibration_dots_received
           => calibration_start_time # None ]_vars

-----------------------------------------------------------------------------
(* A session, the requests that follow it, and fair scheduling: a pump is  *)
(* a thread of its own and gets to run; a request thread inside            *)
(* connect_serial or disconnect_serial gets to run.  The device reports    *)
(* one episode, so the steps of the pump on calibration lines and dots are *)
(* never enabled and are left out.                                         *)

InitRestart ==
    /\ SessionAt(NewPump, 0, 0)
    /\ script = <<Line(motion_detected), Line(motion_ended)>>

NextRestart ==
    \/ \E p \in PumpIds : MotionPump(p)
    \/ \E r \in ReqIds : ConnectStep(r) \/ DisconnectStep(r)
    \/ DeviceSend

ConnectRuns(r) ==
    \/ ConnectClose(r) \/ ConnectOpen(r) \/ ConnectOpenRaises(r)
    \/ ConnectReset(r) \/ ConnectFlags(r) \/ ConnectThread(r)
    \/ ConnectStatus(r) \/ ConnectLog(r)
    \/ ConnectError(r) \/ ConnectErrorLog(r)

FairRestart ==
    /\ InitRestart
    /\ [][NextRestart]_vars
    /\ \A p \in PumpIds : WF_vars(MotionPump(p))
    /\ \A r \in ReqIds : WF_vars(ConnectRuns(r) \/ DisconnectRuns(r))

-----------------------------------------------------------------------------
(* C17.  Pump shutdown: a pump that is live when disconnect_serial has     *)
(* returned eventually leaves read_serial_data, whatever request follows.  *)

DisconnectReturned == \E r \in ReqIds : req[r].pc = "idle" /\ req[r].op = "disconnect"

C17_PumpShutdown ==
    \A p \in PumpIds : (DisconnectReturned /\ Live(p)) ~> ~Live(p)

-----------------------------------------------------------------------------
(* One session whose device reports, among the scripts, two motion starts  *)
(* and then two motion ends.                                               *)

InitEpisode ==
    /\ Connected
    /\ script \in SessionScripts

SpecEpisode == InitEpisode /\ [][NextFramer]_vars

-----------------------------------------------------------------------------
(* C18.  Last start wins: a motion start handled while an episode is       *)
(* active overwrites current_motion_start with the time it is handled,     *)
(* commits a motion_start row and raises no error; the motion end after it *)
(* takes its duration from current_motion_start, commits its row and sets  *)
(* current_motion_start to None, so the next motion end has no duration.   *)

Statuses(out, status) ==
    Len(SelectSeq(out, LAMBDA n : n.name = "motion_status" /\ n.status = status))

\* the pump is handling, or has handled, a motion start that found an
\* episode active
SecondStart(p) == Statuses(pump[p].out, "detected") = 2

C18_LastStartWins ==
    [][\A p \in PumpIds :
         ( SecondStart(p) /\ pump'[p] # pump[p] ) =>
            /\ pump[p].pc = "det_set" => current_motion_start' = Some(now')
            /\ pump[p].pc = "det_commit"
               => /\ pump'[p].pc = "det_log"
                  /\ sink' = Append(sink, IntrusionEvent("motion_start",
                                                         pump[p].message, None))
            /\ pump[p].pc = "end_duration"
               => pump'[p].duration = DurationSince(current_motion_start, now')
            /\ pump[p].pc = "end_commit"
               => /\ pump'[p].pc = "end_log"
                  /\ sink' = Append(sink, IntrusionEvent("motion_end",
                                             pump[p].message, pump[p].duration))
            /\ pump[p].pc = "end_clear" => current_motion_start' = None]_vars

-----------------------------------------------------------------------------
(* C19.  Disconnect / pump race: while disconnect_serial has returned and  *)
(* no connect_serial has been called since, calibration_dots_received is   *)
(* 0 and stays 0, and no pump publishes an active calibration_progress, a  *)
(* sensor_status or a motion_status notification.                          *)

SessionNotification(n) ==
    \/ IsActiveProgress(n)
    \/ n.name \in {"sensor_status", "motion_status"}

C19_QuietAfterDisconnect ==
    [][DisconnectReturned =>
         /\ calibration_dots_received = 0
         /\ calibration_dots_received' = 0
         /\ \A p \in PumpIds :
               Len(pump'[p].out) > Len(pump[p].out)
               => ~SessionNotification(Last(pump'[p].out))]_vars

-----------------------------------------------------------------------------
(* C20.  Episode pairing in the sink: the committed motion_end rows that   *)
(* carry a duration are never more than the committed motion_start rows.   *)

Rows(event_type) == SelectSeq(sink, LAMBDA row : row.event_type = event_type)

TimedEnds == SelectSeq(Rows("motion_end"), LAMBDA row : row.duration # None)

C20_SinkPairing == Len(TimedEnds) <= Len(Rows("motion_start"))

====
